---- MODULE Spec2Model ----
(***************************************************************************)
(* Model of the LoTW exporter: the ADIF tokenizer and field decoder        *)
(* (package adif: Parse, parseRecord) and the metrics collector (package   *)
(* collector: Collector.fetch, Collect, StartBackgroundFetch).             *)
(*                                                                         *)
(* A Go string is modelled as a sequence of one-character strings, with    *)
(* Go's 0-based half-open slices s[a:b] written Slice(s, a, b).            *)
(***************************************************************************)
EXTENDS Integers, Sequences, FiniteSets, TLC

(***************************************************************************)
(* Strings                                                                 *)
(***************************************************************************)
LowerChars == <<"a","b","c","d","e","f","g","h","i","j","k","l","m",
                "n","o","p","q","r","s","t","u","v","w","x","y","z">>

UpperChars == <<"A","B","C","D","E","F","G","H","I","J","K","L","M",
                "N","O","P","Q","R","S","T","U","V","W","X","Y","Z">>

DigitChars == <<"0","1","2","3","4","5","6","7","8","9">>

SpaceChars == {" ", "\n", "\t", "\r"}

\* s[a:b]
Slice(s, a, b) == SubSeq(s, a + 1, b)

\* s[a:]
SliceFrom(s, a) == SubSeq(s, a + 1, Len(s))

\* sub occurs in s at the 0-based index i
OccursAt(s, sub, i) ==
  \A k \in 1..Len(sub) : s[i + k] = sub[k]

RECURSIVE IndexFrom(_, _, _)
IndexFrom(s, sub, i) ==
  IF i + Len(sub) > Len(s) THEN -1
  ELSE IF OccursAt(s, sub, i) THEN i
  ELSE IndexFrom(s, sub, i + 1)

\* strings.Index(s, sub): 0-based index of the first occurrence, or -1
Index(s, sub) == IndexFrom(s, sub, 0)

\* the lower-case letter of each upper-case letter, and the converse
LowerOf ==
  [c \in {UpperChars[i] : i \in 1..26} |->
     LowerChars[CHOOSE i \in 1..26 : UpperChars[i] = c]]

UpperOf ==
  [c \in {LowerChars[i] : i \in 1..26} |->
     UpperChars[CHOOSE i \in 1..26 : LowerChars[i] = c]]

ToLowerChar(c) == IF c \in DOMAIN LowerOf THEN LowerOf[c] ELSE c

ToUpperChar(c) == IF c \in DOMAIN UpperOf THEN UpperOf[c] ELSE c

\* Text is a sequence of bytes.  The bytes below 0x80 are written as the
\* characters they stand for, the others by their hexadecimal value.  One
\* letter outside ASCII is modelled: U+023A, capital A with stroke, the
\* bytes C8 BA, whose lower case U+2C65 is the three bytes E2 B1 A5.
WideUpper == <<"C8", "BA">>

WideLower == <<"E2", "B1", "A5">>

\* U+FFFD, which strings.Map writes for a byte that is not valid UTF-8
RuneError == <<"EF", "BF", "BD">>

HighBytes == {"C8", "BA", "E2", "B1", "A5", "EF", "BF", "BD"}

IsAscii(s) == \A i \in 1..Len(s) : s[i] \notin HighBytes

\* the ASCII text s in lower or in upper case
MapAscii(s, lower) ==
  [i \in 1..Len(s) |->
     IF lower THEN ToLowerChar(s[i]) ELSE ToUpperChar(s[i])] \o <<>>

\* the 1-based index of the first byte of s that is not ASCII
FirstHigh(s) ==
  CHOOSE i \in 1..Len(s) :
    s[i] \in HighBytes /\ \A j \in 1..(i - 1) : s[j] \notin HighBytes

\* the bytes of the rune that starts s, whose first byte is not ASCII: a
\* byte that starts no valid encoding is a rune of its own
FirstRune(s) ==
  IF Len(s) >= 2 /\ SubSeq(s, 1, 2) = WideUpper THEN WideUpper
  ELSE IF Len(s) >= 3 /\ SubSeq(s, 1, 3) = WideLower THEN WideLower
  ELSE IF Len(s) >= 3 /\ SubSeq(s, 1, 3) = RuneError THEN RuneError
  ELSE <<Head(s)>>

\* unicode.ToLower or unicode.ToUpper of a rune that is not ASCII, encoded
MapRune(r, lower) ==
  IF r \in {WideUpper, WideLower}
  THEN (IF lower THEN WideLower ELSE WideUpper)
  ELSE RuneError

\* strings.Map(unicode.ToLower, s) or strings.Map(unicode.ToUpper, s):
\* rune by rune, each mapped rune encoded anew
RECURSIVE MapRunes(_, _)
MapRunes(s, lower) ==
  IF IsAscii(s) THEN MapAscii(s, lower)
  ELSE LET i == FirstHigh(s)
           r == FirstRune(SubSeq(s, i, Len(s)))
       IN MapAscii(SubSeq(s, 1, i - 1), lower) \o MapRune(r, lower)
            \o MapRunes(SubSeq(s, i + Len(r), Len(s)), lower)

\* strings.ToLower: byte by byte on ASCII text (the concatenation makes the
\* result a tuple), rune by rune otherwise
ToLower(s) ==
  IF IsAscii(s) THEN [i \in 1..Len(s) |-> ToLowerChar(s[i])] \o <<>>
  ELSE MapRunes(s, TRUE)

\* strings.ToUpper
ToUpper(s) ==
  IF IsAscii(s) THEN [i \in 1..Len(s) |-> ToUpperChar(s[i])] \o <<>>
  ELSE MapRunes(s, FALSE)

RECURSIVE TrimLeft(_)
TrimLeft(s) ==
  IF s # <<>> /\ Head(s) \in SpaceChars THEN TrimLeft(Tail(s)) ELSE s

RECURSIVE TrimRight(_)
TrimRight(s) ==
  IF s # <<>> /\ s[Len(s)] \in SpaceChars
  THEN TrimRight(SubSeq(s, 1, Len(s) - 1)) ELSE s

\* strings.TrimSpace
TrimSpace(s) == TrimRight(TrimLeft(s))

\* strings.Split(s, sep) for a one-character separator: always >= 1 part
RECURSIVE Split(_, _)
Split(s, sep) ==
  LET i == Index(s, <<sep>>)
  IN IF i = -1 THEN <<s>>
     ELSE <<Slice(s, 0, i)>> \o Split(SliceFrom(s, i + 1), sep)

(***************************************************************************)
(* strconv.Atoi and the int arithmetic of parseRecord.  A decimal number   *)
(* is kept as its digit sequence so that lengths up to the largest int     *)
(* can be decoded; int is 64 bits wide.                                    *)
(***************************************************************************)
\* math.MaxInt64 = 2^63 - 1 = 9223372036854775807
MaxIntDigits == <<"9","2","2","3","3","7","2","0","3","6","8","5","4",
                  "7","7","5","8","0","7">>

IsDigit(c) == \E i \in 1..10 : DigitChars[i] = c

DigitVal(c) == (CHOOSE i \in 1..10 : DigitChars[i] = c) - 1

RECURSIVE StripZeros(_)
StripZeros(d) ==
  IF Len(d) > 1 /\ Head(d) = "0" THEN StripZeros(Tail(d)) ELSE d

\* value of a digit sequence of at most 9 digits
RECURSIVE SmallVal(_)
SmallVal(d) ==
  IF d = <<>> THEN 0
  ELSE 10 * SmallVal(SubSeq(d, 1, Len(d) - 1)) + DigitVal(d[Len(d)])

\* a > b for digit sequences without leading zeros
RECURSIVE DigitsGreater(_, _)
DigitsGreater(a, b) ==
  IF Len(a) # Len(b) THEN Len(a) > Len(b)
  ELSE IF a = <<>> THEN FALSE
  ELSE IF Head(a) # Head(b) THEN DigitVal(Head(a)) > DigitVal(Head(b))
  ELSE DigitsGreater(Tail(a), Tail(b))

\* digit sequence of d + k, for a small non-negative k
RECURSIVE DigitsAdd(_, _)
DigitsAdd(d, k) ==
  IF k = 0 THEN d
  ELSE IF d = <<>> THEN DigitsAdd(<<"0">>, k)
  ELSE LET sum == DigitVal(d[Len(d)]) + k
       IN StripZeros(DigitsAdd(SubSeq(d, 1, Len(d) - 1), sum \div 10)
                     \o <<DigitChars[(sum % 10) + 1]>>)

\* strconv.Atoi: optional sign, then one or more decimal digits, within the
\* range of int.  The result keeps the magnitude as digits.
Atoi(s) ==
  LET signed == s # <<>> /\ Head(s) \in {"+", "-"}
      body   == IF signed THEN Tail(s) ELSE s
      neg    == signed /\ Head(s) = "-"
      mag    == StripZeros(body)
      syntax == body # <<>> /\ \A i \in 1..Len(body) : IsDigit(body[i])
      \* -2^63 is in range, 2^63 is not
      range  == IF neg THEN ~DigitsGreater(mag, DigitsAdd(MaxIntDigits, 1))
                       ELSE ~DigitsGreater(mag, MaxIntDigits)
  IN IF syntax /\ range
     THEN [ok |-> TRUE, neg |-> neg /\ mag # <<"0">>, mag |-> mag]
     ELSE [ok |-> FALSE, neg |-> FALSE, mag |-> <<"0">>]

\* dataEnd := dataStart + length; if dataEnd > len(input) { dataEnd = len(input) }
\* computed in 64-bit int.  Only the comparison with len(input) and the slice
\* bounds use dataEnd, so a sum that wraps or is negative is returned as -1
\* and a sum above len(input) as len(input).
ClipDataEnd(dataStart, length, inputLen) ==
  IF length.neg THEN
    IF Len(length.mag) <= 9 /\ SmallVal(length.mag) <= dataStart
    THEN dataStart - SmallVal(length.mag) ELSE -1
  ELSE IF DigitsGreater(DigitsAdd(length.mag, dataStart), MaxIntDigits) THEN -1
  ELSE IF Len(length.mag) > 9 THEN inputLen
  ELSE IF dataStart + SmallVal(length.mag) > inputLen THEN inputLen
  ELSE dataStart + SmallVal(length.mag)

(***************************************************************************)
(* Records                                                                 *)
(***************************************************************************)
\* make(Record)
EmptyRecord == [k \in {} |-> <<>>]

\* rec[key] = value
Put(rec, key, value) ==
  [k \in DOMAIN rec \cup {key} |-> IF k = key THEN value ELSE rec[k]]

\* rec[key] of a Go map: the zero value "" when the key is absent
Get(rec, key) == IF key \in DOMAIN rec THEN rec[key] ELSE <<>>

\* a mutation of SkipTag: the scan stops at a tag that is not a field
SkipTagStops(input, end) == <<>>

\* input = input[end+1:]; continue
SkipTag(input, end) == SliceFrom(input, end + 1)

\* a mutation of ResumeAfterValue: the scan goes on right after the tag, so
\* that the characters of the value are scanned for tags again
ResumeAfterTag(input, dataStart, dataEnd) == SliceFrom(input, dataStart)

\* input = input[dataEnd:]
ResumeAfterValue(input, dataStart, dataEnd) == SliceFrom(input, dataEnd)

\* parseRecord, the loop body; fault is a slice-bounds panic at
\* value := input[dataStart:dataEnd]
RECURSIVE parseRecordLoop(_, _)
parseRecordLoop(input, rec) ==
  LET start == Index(input, <<"<">>)
  IN IF start = -1 THEN [fault |-> FALSE, rec |-> rec]
     ELSE
       LET endRel == Index(SliceFrom(input, start), <<">">>)
       IN IF endRel = -1 THEN [fault |-> FALSE, rec |-> rec]
          ELSE
            LET end        == endRel + start
                tagContent == Slice(input, start + 1, end)
                parts      == Split(tagContent, ":")
                fieldName  == ToUpper(parts[1])
            IN IF Len(parts) < 2
               THEN parseRecordLoop(SkipTag(input, end), rec)
               ELSE
                 LET length == Atoi(parts[2])
                 IN IF ~length.ok
                    THEN parseRecordLoop(SkipTag(input, end), rec)
                    ELSE
                      LET dataStart == end + 1
                          dataEnd   == ClipDataEnd(dataStart, length, Len(input))
                      IN IF dataEnd < dataStart
                         THEN [fault |-> TRUE, rec |-> rec]
                         ELSE parseRecordLoop(
                                ResumeAfterValue(input, dataStart, dataEnd),
                                Put(rec, fieldName,
                                    Slice(input, dataStart, dataEnd)))

parseRecord(text) == parseRecordLoop(text, EmptyRecord)

(***************************************************************************)
(* The tokenizer: Parse and its split function                             *)
(***************************************************************************)
EOR == <<"<", "e", "o", "r", ">">>

EOH == <<"<", "e", "o", "h", ">">>

\* scanner.Buffer(buf, 50*1024*1024): the largest token buffer, scaled down
MaxTokenSize == 80

NoToken == [advance |-> 0, hasToken |-> FALSE, token |-> <<>>, fault |-> FALSE]

\* return idx + 5, data[0:idx], nil; data[0:idx] panics when idx > len(data)
MarkerAt(data, idx) ==
  [advance |-> idx + 5, hasToken |-> TRUE, token |-> Slice(data, 0, idx),
   fault |-> idx > Len(data)]

\* return len(data), data, nil
AllOf(data) ==
  [advance |-> Len(data), hasToken |-> TRUE, token |-> data, fault |-> FALSE]

\* a mutation of SplitFunc: the marker is searched for in lower case only
SplitFuncLowerCaseOnly(data, atEOF) ==
  IF atEOF /\ data = <<>> THEN NoToken
  ELSE
    LET idx == Index(data, EOR)
    IN IF idx >= 0 THEN MarkerAt(data, idx)
       ELSE IF atEOF THEN AllOf(data)
       ELSE NoToken

\* the split function handed to scanner.Split
SplitFunc(data, atEOF) ==
  IF atEOF /\ data = <<>> THEN NoToken
  ELSE
    LET idx == Index(ToLower(data), EOR)
    IN IF idx >= 0 THEN MarkerAt(data, idx)
       ELSE IF atEOF THEN AllOf(data)
       ELSE NoToken

\* scanner.Scan() over the unread stream.  bufio.Scanner grows its buffer up
\* to MaxTokenSize while the split function asks for more data, fails with
\* ErrTooLong when the full buffer holds no token, fails with
\* ErrAdvanceTooFar when the split function advances past the data it was
\* given, and calls the split function with atEOF once the reader is
\* exhausted.  A panic of the split function is a fault.
Scan(stream) ==
  LET window == Slice(stream, 0, IF Len(stream) < MaxTokenSize
                                 THEN Len(stream) ELSE MaxTokenSize)
      r      == SplitFunc(window, FALSE)
      atEnd  == SplitFunc(stream, TRUE)
  IN IF r.hasToken
     THEN IF r.fault
          THEN [ok |-> FALSE, err |-> FALSE, fault |-> TRUE, token |-> <<>>,
                rest |-> stream]
          ELSE IF r.advance > Len(window)
          THEN [ok |-> FALSE, err |-> TRUE, fault |-> FALSE, token |-> <<>>,
                rest |-> stream]
          ELSE [ok |-> TRUE, err |-> FALSE, fault |-> FALSE,
                token |-> r.token, rest |-> SliceFrom(stream, r.advance)]
     ELSE IF Len(stream) >= MaxTokenSize
     THEN [ok |-> FALSE, err |-> TRUE, fault |-> FALSE, token |-> <<>>,
           rest |-> stream]
     ELSE IF atEnd.hasToken
     THEN [ok |-> TRUE, err |-> FALSE, fault |-> FALSE,
           token |-> atEnd.token, rest |-> SliceFrom(stream, atEnd.advance)]
     ELSE [ok |-> FALSE, err |-> FALSE, fault |-> FALSE, token |-> <<>>,
           rest |-> stream]

\* if idx := strings.Index(strings.ToLower(text), "<eoh>"); idx >= 0 { text = text[idx+5:] }
StripHeader(text) ==
  LET idx == Index(ToLower(text), EOH)
  IN IF idx >= 0 THEN SliceFrom(text, idx + 5) ELSE text

\* text[idx+5:] panics when idx + 5 > len(text)
StripHeaderFaults(text) ==
  LET idx == Index(ToLower(text), EOH)
  IN idx >= 0 /\ idx + 5 > Len(text)

\* a mutation of ScanBody: a record without fields is kept
ScanBodyKeepsEmpty(token, records) ==
  LET text == TrimSpace(token)
  IN IF text = <<>> THEN [fault |-> FALSE, records |-> records]
     ELSE IF StripHeaderFaults(text) THEN [fault |-> TRUE, records |-> records]
     ELSE
       LET r == parseRecord(StripHeader(text))
       IN IF r.fault THEN [fault |-> TRUE, records |-> records]
          ELSE [fault |-> FALSE, records |-> Append(records, r.rec)]

\* the body of the for scanner.Scan() loop, for one token
ScanBody(token, records) ==
  LET text == TrimSpace(token)
  IN IF text = <<>> THEN [fault |-> FALSE, records |-> records]
     ELSE IF StripHeaderFaults(text) THEN [fault |-> TRUE, records |-> records]
     ELSE
       LET r == parseRecord(StripHeader(text))
       IN IF r.fault THEN [fault |-> TRUE, records |-> records]
          ELSE IF Cardinality(DOMAIN r.rec) > 0
          THEN [fault |-> FALSE, records |-> Append(records, r.rec)]
          ELSE [fault |-> FALSE, records |-> records]

RECURSIVE ParseLoop(_, _)
ParseLoop(stream, records) ==
  LET t == Scan(stream)
  IN IF t.fault THEN [status |-> "panic", records |-> <<>>]
     ELSE IF t.err THEN [status |-> "err", records |-> <<>>]
     ELSE IF ~t.ok THEN [status |-> "ok", records |-> records]
     ELSE LET b == ScanBody(t.token, records)
          IN IF b.fault THEN [status |-> "panic", records |-> <<>>]
             ELSE ParseLoop(t.rest, b.records)

\* adif.Parse: status "ok" (records, nil), "err" (nil, error) or "panic"
Parse(body) == ParseLoop(body, <<>>)

(***************************************************************************)
(* State                                                                   *)
(***************************************************************************)
VARIABLES
  \* the decoder run on one raw record string
  dPieces,        \* the pieces the record string is made of
  dText,          \* the raw record string handed to parseRecord
  dDone,          \* parseRecord has returned or panicked
  dResult,        \* its result
  \* adif.Parse run on one stream
  pPieces,        \* the pieces the stream is made of
  pStream,        \* the part of the stream the scanner has not consumed
  pTokens,        \* the tokens scanner.Text() has yielded so far
  pRecords,       \* records
  pStatus,        \* "scanning", "ok", "err" or "panic"
  \* the Collector: its gauges and its mutex
  qsoTotal,       \* GaugeVec (band, mode) -> count
  qslTotal,       \* GaugeVec (band, mode) -> count
  dxccCount,      \* Gauge
  scrapeDuration, \* Gauge
  scrapeSuccess,  \* Gauge
  lastFetch,      \* Gauge
  qsoHistory,     \* GaugeVec (date, band) -> count
  mu,             \* "free", "fetch", or the reader that holds the mutex
  \* the background goroutine of StartBackgroundFetch and its call of fetch
  fpc,            \* where the goroutine is
  tickerOn,       \* time.NewTicker(interval) has been called
  tickC,          \* ticks buffered in ticker.C (capacity 1)
  start,          \* fetch: start
  duration,       \* fetch: duration
  fetchErr,       \* fetch: err of FetchReport
  body,           \* fetch: bodyBytes
  records,        \* fetch: records
  ri,             \* fetch: position of the range loop over records
  dxccConfirmed,  \* fetch: dxccConfirmed
  dateCounts,     \* fetch: dateCounts
  histLeft,       \* fetch: keys the range loop over dateCounts has not visited
  \* the scrape goroutines calling Collect
  rpc,            \* where each reader is
  obs,            \* what each reader has collected so far
  \* the clock
  now,            \* time.Now(), in seconds
  \* history of the run
  pre,            \* the gauges when the current (last) fetch cycle started
  committed,      \* the gauges when the mutex was last released by fetch
  outcome,        \* how the last finished fetch cycle ended: "none", "ok",
                  \* "fetchError", "readError" or "parseError"
  remembered,     \* the report and the aggregates of one earlier successful
                  \* cycle
  \* the LoTW server
  fPieces,        \* the records the generated report of the feed is made of
  feed            \* the reports the server may answer with

dvars == <<dPieces, dText, dDone, dResult>>

pvars == <<pPieces, pStream, pTokens, pRecords, pStatus>>

gauges == <<qsoTotal, qslTotal, dxccCount, scrapeDuration, scrapeSuccess,
            lastFetch, qsoHistory>>

aggregates == <<qsoTotal, qslTotal, dxccCount, qsoHistory>>

locals == <<start, duration, fetchErr, body, records, ri, dxccConfirmed,
            dateCounts, histLeft>>

cvars == <<gauges, mu, fpc, tickerOn, tickC, locals, rpc, obs, now, pre,
           committed, outcome>>

evars == <<remembered, fPieces, feed>>

vars == <<dvars, pvars, cvars, evars>>

(***************************************************************************)
(* The Collector                                                           *)
(***************************************************************************)
\* the scrape goroutines
Readers == {"r1", "r2"}

\* the last second of the clock
MaxTime == 3

BAND == <<"B","A","N","D">>

MODE == <<"M","O","D","E">>

QSL_RCVD == <<"Q","S","L","_","R","C","V","D">>

DXCC == <<"D","X","C","C">>

QSO_DATE == <<"Q","S","O","_","D","A","T","E">>

APP_LOTW_QSO_TIMESTAMP ==
  <<"A","P","P","_","L","O","T","W","_","Q","S","O","_",
    "T","I","M","E","S","T","A","M","P">>

\* a GaugeVec without children
EmptyVec == [k \in {} |-> 0]

\* a mutation of ResetVec: the children of the last cycle are kept
ResetVecKeeps(vec) == vec

\* GaugeVec.Reset()
ResetVec(vec) == EmptyVec

\* GaugeVec.WithLabelValues(labels...).Inc()
IncVec(vec, labels) ==
  IF labels \in DOMAIN vec THEN [vec EXCEPT ![labels] = @ + 1]
  ELSE Put(vec, labels, 1)

\* GaugeVec.WithLabelValues(labels...).Set(v)
SetVec(vec, labels, v) == Put(vec, labels, v)

\* the gauges, as one scrape reports them
Snapshot ==
  [qsoTotal |-> qsoTotal, qslTotal |-> qslTotal, dxccCount |-> dxccCount,
   scrapeDuration |-> scrapeDuration, scrapeSuccess |-> scrapeSuccess,
   lastFetch |-> lastFetch, qsoHistory |-> qsoHistory]

NothingCollected ==
  [qsoTotal |-> EmptyVec, qslTotal |-> EmptyVec, dxccCount |-> -1,
   scrapeDuration |-> -1, scrapeSuccess |-> -1, lastFetch |-> -1,
   qsoHistory |-> EmptyVec]

\* the state after NewCollector
InitCollector ==
  /\ qsoTotal = EmptyVec
  /\ qslTotal = EmptyVec
  /\ dxccCount = 0
  /\ scrapeDuration = 0
  /\ scrapeSuccess = 0
  /\ lastFetch = 0
  /\ qsoHistory = EmptyVec
  /\ mu = "free"
  /\ fpc = "off"
  /\ tickerOn = FALSE
  /\ tickC = 0
  /\ start = 0
  /\ duration = 0
  /\ fetchErr = FALSE
  /\ body = <<>>
  /\ records = <<>>
  /\ ri = 0
  /\ dxccConfirmed = {}
  /\ dateCounts = EmptyVec
  /\ histLeft = {}
  /\ rpc = [r \in Readers |-> "idle"]
  /\ obs = [r \in Readers |-> NothingCollected]
  /\ now = 1
  /\ pre = Snapshot
  /\ committed = Snapshot
  /\ outcome = "none"

\* nothing remembered yet
NoneRemembered == [set |-> FALSE, body |-> <<>>, agg |-> <<>>]

CollectorIdle ==
  /\ InitCollector
  /\ remembered = NoneRemembered
  /\ fPieces = <<>>
  /\ feed = {}

(***************************************************************************)
(* Inputs: a record string or a stream is a concatenation of pieces.  A    *)
(* piece of kind "field" is a tag <NAME:LEN> or <NAME:LEN:TYPE> followed   *)
(* by exactly LEN value characters; key is the field name in upper case.   *)
(***************************************************************************)
Piece(kind, text, key, value) ==
  [kind |-> kind, text |-> text, key |-> key, value |-> value]

Other(kind, text) == Piece(kind, text, <<>>, <<>>)

\* the most pieces in a raw record string
MaxDecodePieces == 4

DecodePieces ==
  { Piece("field", <<"<","a",":","1",">","x">>, <<"A">>, <<"x">>),
    Piece("field", <<"<","a",":","2",":","S",">","y","z">>, <<"A">>, <<"y","z">>),
    Piece("field", <<"<","Q","b",":","0",">">>, <<"Q","B">>, <<>>),
    Piece("field", <<"<","c",":","0","5",">","<","a",":","1",">">>,
                   <<"C">>, <<"<","a",":","1",">">>),
    Other("nolen",  <<"<","z","z",">">>),
    Other("nolen",  <<"<",">">>),
    Other("badlen", <<"<","a",":","x",">">>),
    Other("badlen", <<"<","d",":",":","1",">">>),
    Other("over",   <<"<","e",":","9","9",">">>),
    Other("neg",    <<"<","a",":","-","1",">">>),
    Other("maxint", <<"<","a",":">> \o MaxIntDigits \o <<">">>),
    Other("text",   <<" ">>),
    Other("text",   <<"q">>),
    Other("open",   <<"<">>),
    Other("close",  <<">">>) }

PieceSeqs(pieces, max) == UNION {[1..n -> pieces] : n \in 0..max}

RECURSIVE Flatten(_)
Flatten(ps) == IF ps = <<>> THEN <<>> ELSE Head(ps).text \o Flatten(Tail(ps))

\* the fields of the pieces of kind "field", a later one replacing an
\* earlier one of the same name
RECURSIVE FieldsOf(_)
FieldsOf(ps) ==
  IF ps = <<>> THEN EmptyRecord
  ELSE LET last == ps[Len(ps)]
           init == FieldsOf(SubSeq(ps, 1, Len(ps) - 1))
       IN IF last.kind = "field" THEN Put(init, last.key, last.value) ELSE init

Kinds(ps) == {ps[i].kind : i \in 1..Len(ps)}

(***************************************************************************)
(* The decoder on its own: parseRecord applied to a raw record string      *)
(***************************************************************************)
NoResult == [fault |-> FALSE, rec |-> EmptyRecord]

ParseIdle ==
  /\ pPieces = <<>>
  /\ pStream = <<>>
  /\ pTokens = <<>>
  /\ pRecords = <<>>
  /\ pStatus = "ok"

InitDecode ==
  /\ dPieces \in PieceSeqs(DecodePieces, MaxDecodePieces)
  /\ dText = Flatten(dPieces)
  /\ dDone = FALSE
  /\ dResult = NoResult
  /\ ParseIdle
  /\ CollectorIdle

Decode ==
  /\ ~dDone
  /\ dResult' = parseRecord(dText)
  /\ dDone' = TRUE
  /\ UNCHANGED <<dPieces, dText, pvars, cvars, evars>>

NextDecode == Decode

SpecDecode == InitDecode /\ [][NextDecode]_vars

\* C5: decoding never fails: for every raw record string parseRecord
\* returns a mapping and raises no out-of-range fault, and a record string
\* with no valid tag yields the empty mapping
C5_DecodingNeverFails ==
  dDone => /\ ~dResult.fault
           /\ (Kinds(dPieces) \cap {"field", "over", "neg", "maxint"} = {}
               /\ Kinds(dPieces) \cap {"open", "close"} = {}
                 => dResult.rec = EmptyRecord)

\* the position of the first piece of kind "over" or "maxint", whose
\* declared length exceeds what is left of the record
IsOverrun(ps, i) ==
  /\ i \in 1..Len(ps)
  /\ ps[i].kind \in {"over", "maxint"}
  /\ \A j \in 1..(i - 1) : ps[j].kind \in {"field", "nolen", "badlen", "text"}

\* C6: a declared length beyond the end of the record gives exactly the
\* remaining characters as the value, without a fault, and ends the scan
C6_OverrunTruncates ==
  dDone => \A i \in 1..Len(dPieces) :
             IsOverrun(dPieces, i) =>
               /\ ~dResult.fault
               /\ dResult.rec =
                    Put(FieldsOf(SubSeq(dPieces, 1, i - 1)),
                        IF dPieces[i].kind = "over" THEN <<"E">> ELSE <<"A">>,
                        Flatten(SubSeq(dPieces, i + 1, Len(dPieces))))

\* a record string made of fields, tags that are not fields, and text
OnlyFieldsAndSkippedTags(ps) ==
  Kinds(ps) \subseteq {"field", "nolen", "badlen", "text"}

\* C7: a tag with fewer than two segments, or with a length segment that is
\* not an integer, adds no field, and the fields after it are still decoded
C7_BadTagSkipped ==
  dDone /\ OnlyFieldsAndSkippedTags(dPieces)
    => ~dResult.fault /\ dResult.rec = FieldsOf(dPieces)

C7_Witness ==
  /\ dDone
  /\ Len(dPieces) = 3
  /\ dPieces[1].kind = "nolen"
  /\ dPieces[2].kind = "badlen"
  /\ dPieces[3].kind = "field"
  /\ dResult.rec = Put(EmptyRecord, dPieces[3].key, dPieces[3].value)

(***************************************************************************)
(* adif.Parse on its own, one scanner.Scan() per step                      *)
(***************************************************************************)
\* the most pieces in a stream
MaxParsePieces == 4

\* a record that with its marker exactly fills the token buffer
Pad == [i \in 1..(MaxTokenSize - 5) |-> "p"] \o <<>>

ParsePieces ==
  { Piece("field", <<"<","a",":","1",">","x">>, <<"A">>, <<"x">>),
    Piece("field", <<"<","B",":","1",":","S",">","w">>, <<"B">>, <<"w">>),
    Piece("field", <<"<","c",":","2",">","y"," ">>, <<"C">>, <<"y"," ">>),
    Other("eor",   <<"<","e","o","r",">">>),
    Other("eor",   <<"<","E","o","R",">">>),
    Other("eoh",   <<"<","e","O","h",">">>),
    Other("space", <<"\n">>),
    Other("neg",   <<"<","a",":","-","1",">">>),
    Other("wide",  WideUpper),
    Other("pad",   Pad) }

DecodeIdle ==
  /\ dPieces = <<>>
  /\ dText = <<>>
  /\ dDone = TRUE
  /\ dResult = NoResult

InitParse ==
  /\ pPieces \in PieceSeqs(ParsePieces, MaxParsePieces)
  /\ pStream = Flatten(pPieces)
  /\ pTokens = <<>>
  /\ pRecords = <<>>
  /\ pStatus = "scanning"
  /\ DecodeIdle
  /\ CollectorIdle

\* scanner.Scan() returned true: one pass through the loop body
ScanToken ==
  /\ pStatus = "scanning"
  /\ LET t == Scan(pStream)
         b == ScanBody(t.token, pRecords)
     IN /\ t.ok
        /\ pStream' = t.rest
        /\ pTokens' = Append(pTokens, t.token)
        /\ pRecords' = IF b.fault THEN <<>> ELSE b.records
        /\ pStatus' = IF b.fault THEN "panic" ELSE "scanning"
  /\ UNCHANGED <<pPieces, dvars, cvars, evars>>

\* scanner.Scan() returned false: Parse returns (records, nil) or (nil, err)
ScanStop ==
  /\ pStatus = "scanning"
  /\ LET t == Scan(pStream)
     IN /\ ~t.ok
        /\ pStatus' = IF t.fault THEN "panic" ELSE IF t.err THEN "err" ELSE "ok"
        /\ pRecords' = IF t.fault \/ t.err THEN <<>> ELSE pRecords
  /\ UNCHANGED <<pPieces, pStream, pTokens, dvars, cvars, evars>>

NextParse == ScanToken \/ ScanStop

SpecParse == InitParse /\ [][NextParse]_vars

\* the pieces before the first marker piece, and those after it
RECURSIVE UpToMarker(_)
UpToMarker(ps) ==
  IF ps = <<>> \/ Head(ps).kind = "eor" THEN <<>>
  ELSE <<Head(ps)>> \o UpToMarker(Tail(ps))

AfterMarker(ps) == SubSeq(ps, Len(UpToMarker(ps)) + 2, Len(ps))

\* the groups of pieces that end with a marker piece, in order
RECURSIVE MarkedGroups(_)
MarkedGroups(ps) ==
  IF Len(UpToMarker(ps)) = Len(ps) THEN <<>>
  ELSE <<UpToMarker(ps)>> \o MarkedGroups(AfterMarker(ps))

\* the number of end-of-record markers in a text, in any letter case
CountMarkers(text) ==
  Cardinality({i \in 0..(Len(text) - 5) : OccursAt(ToLower(text), EOR, i)})

\* every record ends with a marker, nothing follows the last marker, every
\* record fits the token buffer with its marker, no length is negative and
\* the text is ASCII
WellFormedStream(ps) ==
  /\ ps # <<>> => ps[Len(ps)].kind = "eor"
  /\ \A i \in 1..Len(MarkedGroups(ps)) :
       Len(Flatten(MarkedGroups(ps)[i])) + 5 <= MaxTokenSize
  /\ "neg" \notin Kinds(ps)
  /\ "wide" \notin Kinds(ps)

\* C8: for well-formed input with N end-of-record markers the tokenizer
\* yields exactly N record strings, in stream order, none containing a marker
C8_OneTokenPerMarker ==
  pStatus # "scanning" /\ WellFormedStream(pPieces) =>
    /\ pStatus = "ok"
    /\ Len(pTokens) = CountMarkers(Flatten(pPieces))
    /\ pTokens = [i \in 1..Len(MarkedGroups(pPieces)) |->
                    Flatten(MarkedGroups(pPieces)[i])]
    /\ \A i \in 1..Len(pTokens) : CountMarkers(pTokens[i]) = 0

C8_Witness ==
  /\ pStatus = "ok"
  /\ WellFormedStream(pPieces)
  /\ Len(pPieces) = 4
  /\ pPieces[2].text = <<"<","E","o","R",">">>
  /\ pPieces[1].kind = "field"
  /\ pPieces[3].kind = "space"
  /\ Len(pTokens) = 2

\* records of one or more fields, each ended by a marker
FieldRecords(ps) ==
  /\ Kinds(ps) \subseteq {"field", "eor"}
  /\ ps # <<>> => ps[Len(ps)].kind = "eor"
  /\ \A i \in 1..Len(ps) :
       ps[i].kind = "eor" => i > 1 /\ ps[i - 1].kind = "field"

\* C9: for input made of records of <NAME:LEN> or <NAME:LEN:TYPE> tags with
\* exactly LEN value characters, each ended by a marker, Parse returns no
\* error and one Record per marker, in order, mapping each upper-case NAME
\* to exactly its LEN value characters
C9_ParseWellFormedRecords ==
  pStatus # "scanning" /\ FieldRecords(pPieces) =>
    /\ pStatus = "ok"
    /\ pRecords = [i \in 1..Len(MarkedGroups(pPieces)) |->
                     FieldsOf(MarkedGroups(pPieces)[i])]

(***************************************************************************)
(* The reports the LoTW server may answer with                             *)
(***************************************************************************)
\* the decimal digits of a number below 100
Digits(n) ==
  IF n < 10 THEN <<DigitChars[n + 1]>>
  ELSE <<DigitChars[(n \div 10) + 1], DigitChars[(n % 10) + 1]>>

\* <name:len>value with the exact length of value
FieldText(name, value) ==
  <<"<">> \o name \o <<":">> \o Digits(Len(value)) \o <<">">> \o value

\* two confirmed contacts on one band and mode with one DXCC entity, the
\* first with a QSO_DATE
ReportA ==
  FieldText(BAND, <<"2","0","M">>) \o FieldText(MODE, <<"C","W">>)
    \o FieldText(QSL_RCVD, <<"Y">>) \o FieldText(DXCC, <<"2","9","1">>)
    \o FieldText(QSO_DATE, <<"2","0","2","3","0","1","0","1">>)
    \o <<"<","E","O","R",">","\n">>
    \o FieldText(ToLower(BAND), <<"2","0","M">>)
    \o FieldText(ToLower(MODE), <<"C","W">>)
    \o FieldText(ToLower(QSL_RCVD), <<"y">>)
    \o FieldText(ToLower(DXCC), <<"2","9","1">>)
    \o <<"<","e","o","r",">","\n">>

\* a header, an unconfirmed contact with a timestamp and no mode, a contact
\* without band and mode, and a dated contact whose band holds a '|'
ReportB ==
  <<"h">> \o EOH \o <<"\n">>
    \o FieldText(BAND, <<"4","0","M">>)
    \o FieldText(APP_LOTW_QSO_TIMESTAMP,
                 <<"2","0","2","3","-","0","1","-","0","2","T">>)
    \o EOR
    \o FieldText(<<"c","a","l","l">>, <<"K","1">>) \o EOR
    \o FieldText(BAND, <<"2","|","M">>)
    \o FieldText(QSO_DATE, <<"2","0","2","3","0","1","0","3">>)
    \o EOR

ReportEmpty == <<>>

ReportBlank == <<" ", "\n">>

\* one record that fills the token buffer without a marker
ReportTooLarge == [i \in 1..MaxTokenSize |-> "x"] \o <<>>

\* a tag with a negative length
ReportNegative == <<"<","a",":","-","1",">">>

Reports ==
  {ReportA, ReportB, ReportEmpty, ReportBlank, ReportTooLarge, ReportNegative}

(***************************************************************************)
(* Collector.fetch, statement by statement                                 *)
(***************************************************************************)
Running == fpc # "crashed"

NoLocals ==
  /\ start' = 0
  /\ duration' = 0
  /\ fetchErr' = FALSE
  /\ body' = <<>>
  /\ records' = <<>>
  /\ ri' = 0
  /\ dxccConfirmed' = {}
  /\ dateCounts' = EmptyVec
  /\ histLeft' = {}

\* StartBackgroundFetch: go func() { c.fetch(); ... }
StartBackgroundFetch ==
  /\ fpc = "off"
  /\ fpc' = "start"
  /\ UNCHANGED <<gauges, mu, tickerOn, tickC, locals, rpc, obs, now, pre,
                 committed, outcome>>
  /\ UNCHANGED <<dvars, pvars, evars>>

\* a mutation of FetchBegin: fetch starts only while the mutex is free
FetchBeginWaits ==
  /\ fpc = "start"
  /\ mu = "free"
  /\ start' = now
  /\ pre' = Snapshot
  /\ fpc' = "fetchReport"
  /\ UNCHANGED <<gauges, mu, tickerOn, tickC, duration, fetchErr, body,
                 records, ri, dxccConfirmed, dateCounts, histLeft, rpc, obs,
                 now, committed, outcome>>
  /\ UNCHANGED <<dvars, pvars, evars>>

\* start := time.Now()
FetchBegin ==
  /\ fpc = "start"
  /\ start' = now
  /\ pre' = Snapshot
  /\ fpc' = "fetchReport"
  /\ UNCHANGED <<gauges, mu, tickerOn, tickC, duration, fetchErr, body,
                 records, ri, dxccConfirmed, dateCounts, histLeft, rpc, obs,
                 now, committed, outcome>>
  /\ UNCHANGED <<dvars, pvars, evars>>

\* r, err := c.client.FetchReport(time.Time{}); duration := time.Since(start).Seconds()
FetchReportReturns ==
  /\ fpc = "fetchReport"
  /\ fetchErr' \in BOOLEAN
  /\ duration' = now - start
  /\ fpc' = "lock"
  /\ UNCHANGED <<gauges, mu, tickerOn, tickC, start, body, records, ri,
                 dxccConfirmed, dateCounts, histLeft, rpc, obs, now, pre,
                 committed, outcome>>
  /\ UNCHANGED <<dvars, pvars, evars>>

\* c.mu.Lock()
FetchLock ==
  /\ fpc = "lock"
  /\ mu = "free"
  /\ mu' = "fetch"
  /\ fpc' = "setDuration"
  /\ UNCHANGED <<gauges, tickerOn, tickC, locals, rpc, obs, now, pre,
                 committed, outcome>>
  /\ UNCHANGED <<dvars, pvars, evars>>

\* a mutation of FailCycle: the failure also resets the aggregates
FailCycleResets(kind) ==
  /\ scrapeSuccess' = 0
  /\ qsoTotal' = EmptyVec
  /\ qslTotal' = EmptyVec
  /\ qsoHistory' = EmptyVec
  /\ mu' = "free"
  /\ fpc' = "returned"
  /\ outcome' = kind
  /\ UNCHANGED <<dxccCount, lastFetch>>

\* a mutation of FailCycle: the failure leaves the success flag alone
FailCycleKeepsFlag(kind) ==
  /\ mu' = "free"
  /\ fpc' = "returned"
  /\ outcome' = kind
  /\ UNCHANGED <<qsoTotal, qslTotal, dxccCount, qsoHistory, lastFetch,
                 scrapeSuccess>>

\* c.scrapeSuccess.Set(0); c.mu.Unlock(); return
FailCycle(kind) ==
  /\ scrapeSuccess' = 0
  /\ mu' = "free"
  /\ fpc' = "returned"
  /\ outcome' = kind
  /\ UNCHANGED <<qsoTotal, qslTotal, dxccCount, qsoHistory, lastFetch>>

\* the gauges as the step that releases the mutex leaves them
SnapshotNext ==
  [qsoTotal |-> qsoTotal', qslTotal |-> qslTotal', dxccCount |-> dxccCount',
   scrapeDuration |-> scrapeDuration', scrapeSuccess |-> scrapeSuccess',
   lastFetch |-> lastFetch', qsoHistory |-> qsoHistory']

\* c.scrapeDuration.Set(duration); if err != nil { ... }
FetchSetDuration ==
  /\ fpc = "setDuration"
  /\ scrapeDuration' = duration
  /\ IF fetchErr
     THEN FailCycle("fetchError") /\ committed' = SnapshotNext
     ELSE /\ fpc' = "readAll"
          /\ UNCHANGED <<qsoTotal, qslTotal, dxccCount, qsoHistory, lastFetch,
                         scrapeSuccess, mu, outcome, committed>>
  /\ UNCHANGED <<tickerOn, tickC, locals, rpc, obs, now, pre>>
  /\ UNCHANGED <<dvars, pvars, evars>>

\* bodyBytes, err := io.ReadAll(r); if err != nil { ... }
FetchReadAll ==
  /\ fpc = "readAll"
  /\ UNCHANGED scrapeDuration
  /\ \/ /\ FailCycle("readError")
        /\ committed' = SnapshotNext
        /\ UNCHANGED body
     \/ /\ body' \in feed
        /\ fpc' = "parse"
        /\ UNCHANGED <<qsoTotal, qslTotal, dxccCount, qsoHistory, lastFetch,
                       scrapeSuccess, mu, outcome, committed>>
  /\ UNCHANGED <<tickerOn, tickC, start, duration, fetchErr, records, ri,
                 dxccConfirmed, dateCounts, histLeft, rpc, obs, now, pre>>
  /\ UNCHANGED <<dvars, pvars, evars>>

\* a mutation of ParseFailed: a report without records counts as a failure
ParseFailedOrEmpty(r) == r.status = "err" \/ r.records = <<>>

\* records, err := adif.Parse(byteReader); err != nil
ParseFailed(r) == r.status = "err"

\* records, err := adif.Parse(byteReader); if err != nil { ... }
\* A panic of parseRecord is not recovered and ends the process.
FetchParse ==
  /\ fpc = "parse"
  /\ LET r == Parse(body)
     IN IF r.status = "panic"
        THEN /\ fpc' = "crashed"
             /\ UNCHANGED <<gauges, mu, outcome, committed, records>>
        ELSE IF ParseFailed(r)
        THEN /\ UNCHANGED <<scrapeDuration, records>>
             /\ FailCycle("parseError")
             /\ committed' = SnapshotNext
        ELSE /\ records' = r.records
             /\ fpc' = "publish"
             /\ UNCHANGED <<gauges, mu, outcome, committed>>
  /\ UNCHANGED <<tickerOn, tickC, start, duration, fetchErr, body, ri,
                 dxccConfirmed, dateCounts, histLeft, rpc, obs, now, pre>>
  /\ UNCHANGED <<dvars, pvars, evars>>

\* c.scrapeSuccess.Set(1); c.lastFetch.Set(float64(time.Now().Unix()))
FetchMarkSuccess ==
  /\ fpc = "publish"
  /\ scrapeSuccess' = 1
  /\ lastFetch' = now
  /\ fpc' = "reset"
  /\ UNCHANGED <<qsoTotal, qslTotal, dxccCount, scrapeDuration, qsoHistory,
                 mu, tickerOn, tickC, locals, rpc, obs, now, pre, committed,
                 outcome>>
  /\ UNCHANGED <<dvars, pvars, evars>>

\* c.qsoTotal.Reset(); c.qslTotal.Reset(); c.qsoHistory.Reset();
\* dxccConfirmed := make(map[string]bool); dateCounts := make(map[string]float64)
FetchReset ==
  /\ fpc = "reset"
  /\ qsoTotal' = ResetVec(qsoTotal)
  /\ qslTotal' = ResetVec(qslTotal)
  /\ qsoHistory' = ResetVec(qsoHistory)
  /\ dxccConfirmed' = {}
  /\ dateCounts' = EmptyVec
  /\ ri' = 1
  /\ fpc' = "loop"
  /\ UNCHANGED <<dxccCount, scrapeDuration, scrapeSuccess, lastFetch, mu,
                 tickerOn, tickC, start, duration, fetchErr, body, records,
                 histLeft, rpc, obs, now, pre, committed, outcome>>
  /\ UNCHANGED <<dvars, pvars, evars>>

\* a mutation of IsConfirmed: the comparison minds the letter case
IsConfirmedExact(rec) == Get(rec, QSL_RCVD) = <<"Y">>

\* strings.ToUpper(rec["QSL_RCVD"]) == "Y"
IsConfirmed(rec) == ToUpper(Get(rec, QSL_RCVD)) = <<"Y">>

\* a mutation of EntityCounted: the entity is noted whether or not the
\* contact is confirmed
EntityCountedUnconfirmed(rec) == DXCC \in DOMAIN rec /\ rec[DXCC] # <<>>

\* inside if qslRcvd == "Y": if dxcc, ok := rec["DXCC"]; ok && dxcc != ""
EntityCounted(rec) ==
  IsConfirmed(rec) /\ DXCC \in DOMAIN rec /\ rec[DXCC] # <<>>

\* the date d of a record: the first 10 characters of the timestamp, else
\* the 8-character QSO_DATE as YYYY-MM-DD, else ""
DateOf(rec) ==
  IF APP_LOTW_QSO_TIMESTAMP \in DOMAIN rec
     /\ Len(rec[APP_LOTW_QSO_TIMESTAMP]) >= 10
  THEN Slice(rec[APP_LOTW_QSO_TIMESTAMP], 0, 10)
  ELSE LET qsoDateRaw == Get(rec, QSO_DATE)
       IN IF Len(qsoDateRaw) = 8
          THEN Slice(qsoDateRaw, 0, 4) \o <<"-">> \o Slice(qsoDateRaw, 4, 6)
                 \o <<"-">> \o Slice(qsoDateRaw, 6, 8)
          ELSE <<>>

\* fmt.Sprintf("%s|%s", d, band)
DateKey(d, band) == d \o <<"|">> \o band

\* one pass through the body of for _, rec := range records
FetchRecord ==
  /\ fpc = "loop"
  /\ ri <= Len(records)
  /\ LET rec  == records[ri]
         band == Get(rec, BAND)
         mode == Get(rec, MODE)
         d    == DateOf(rec)
     IN /\ qsoTotal' = IncVec(qsoTotal, <<band, mode>>)
        /\ qslTotal' = IF IsConfirmed(rec)
                       THEN IncVec(qslTotal, <<band, mode>>) ELSE qslTotal
        /\ dxccConfirmed' =
             IF EntityCounted(rec)
             THEN dxccConfirmed \cup {rec[DXCC]} ELSE dxccConfirmed
        /\ dateCounts' = IF d # <<>> THEN IncVec(dateCounts, DateKey(d, band))
                         ELSE dateCounts
  /\ ri' = ri + 1
  /\ UNCHANGED <<dxccCount, scrapeDuration, scrapeSuccess, lastFetch,
                 qsoHistory, mu, fpc, tickerOn, tickC, start, duration,
                 fetchErr, body, records, histLeft, rpc, obs, now, pre,
                 committed, outcome>>
  /\ UNCHANGED <<dvars, pvars, evars>>

\* c.dxccCount.Set(float64(len(dxccConfirmed))), after the last record
FetchSetDxcc ==
  /\ fpc = "loop"
  /\ ri > Len(records)
  /\ dxccCount' = Cardinality(dxccConfirmed)
  /\ histLeft' = DOMAIN dateCounts
  /\ fpc' = "history"
  /\ UNCHANGED <<qsoTotal, qslTotal, scrapeDuration, scrapeSuccess, lastFetch,
                 qsoHistory, mu, tickerOn, tickC, start, duration, fetchErr,
                 body, records, ri, dxccConfirmed, dateCounts, rpc, obs, now,
                 pre, committed, outcome>>
  /\ UNCHANGED <<dvars, pvars, evars>>

\* a mutation of HistoryLabels: the band label is lost, so that the keys of
\* one day share a child and the last one visited sets it
HistoryLabelsDateOnly(parts) == <<parts[1], <<>>>>

\* c.qsoHistory.WithLabelValues(parts[0], parts[1])
HistoryLabels(parts) == <<parts[1], parts[2]>>

\* one pass through the body of for key, count := range dateCounts, which
\* visits the keys in any order
FetchHistory ==
  /\ fpc = "history"
  /\ \E key \in histLeft :
       LET parts == Split(key, "|")
       IN /\ qsoHistory' = IF Len(parts) = 2
                           THEN SetVec(qsoHistory, HistoryLabels(parts),
                                       dateCounts[key])
                           ELSE qsoHistory
          /\ histLeft' = histLeft \ {key}
  /\ UNCHANGED <<qsoTotal, qslTotal, dxccCount, scrapeDuration, scrapeSuccess,
                 lastFetch, mu, fpc, tickerOn, tickC, start, duration,
                 fetchErr, body, records, ri, dxccConfirmed, dateCounts, rpc,
                 obs, now, pre, committed, outcome>>
  /\ UNCHANGED <<dvars, pvars, evars>>

\* c.mu.Unlock(), at the end of fetch
FetchUnlock ==
  /\ fpc = "history"
  /\ histLeft = {}
  /\ mu' = "free"
  /\ fpc' = "returned"
  /\ outcome' = "ok"
  /\ committed' = Snapshot
  /\ UNCHANGED <<gauges, tickerOn, tickC, locals, rpc, obs, now, pre>>
  /\ UNCHANGED <<dvars, pvars, evars>>

\* fetch has returned: ticker := time.NewTicker(interval) after the first
\* call, then the goroutine waits in for range ticker.C
FetchReturn ==
  /\ fpc = "returned"
  /\ fpc' = "waitTick"
  /\ tickerOn' = TRUE
  /\ NoLocals
  /\ UNCHANGED <<gauges, mu, tickC, rpc, obs, now, pre, committed, outcome>>
  /\ UNCHANGED <<dvars, pvars, evars>>

\* a mutation of TickerFires: every tick is queued
TickerFiresQueues ==
  /\ Running
  /\ tickerOn
  /\ tickC' = tickC + 1
  /\ UNCHANGED <<gauges, mu, fpc, tickerOn, locals, rpc, obs, now, pre,
                 committed, outcome>>
  /\ UNCHANGED <<dvars, pvars, evars>>

\* the ticker fires: the tick is buffered, or dropped when one is buffered
TickerFires ==
  /\ Running
  /\ tickerOn
  /\ tickC' = 1
  /\ UNCHANGED <<gauges, mu, fpc, tickerOn, locals, rpc, obs, now, pre,
                 committed, outcome>>
  /\ UNCHANGED <<dvars, pvars, evars>>

\* for range ticker.C { c.fetch() }
FetchOnTick ==
  /\ fpc = "waitTick"
  /\ tickC = 1
  /\ tickC' = 0
  /\ fpc' = "start"
  /\ UNCHANGED <<gauges, mu, tickerOn, locals, rpc, obs, now, pre, committed,
                 outcome>>
  /\ UNCHANGED <<dvars, pvars, evars>>

\* time passes
Advance ==
  /\ Running
  /\ now < MaxTime
  /\ now' = now + 1
  /\ UNCHANGED <<gauges, mu, fpc, tickerOn, tickC, locals, rpc, obs, pre,
                 committed, outcome>>
  /\ UNCHANGED <<dvars, pvars, evars>>

(***************************************************************************)
(* Collector.Collect                                                       *)
(***************************************************************************)
\* a scrape calls Collect
CollectCall(r) ==
  /\ Running
  /\ rpc[r] = "idle"
  /\ rpc' = [rpc EXCEPT ![r] = "lock"]
  /\ UNCHANGED <<gauges, mu, fpc, tickerOn, tickC, locals, obs, now, pre,
                 committed, outcome>>
  /\ UNCHANGED <<dvars, pvars, evars>>

\* a mutation of CollectLock: Collect reads without taking the mutex
CollectWithoutLock(r) ==
  /\ Running
  /\ rpc[r] = "lock"
  /\ rpc' = [rpc EXCEPT ![r] = "qsoTotal"]
  /\ UNCHANGED <<gauges, mu, fpc, tickerOn, tickC, locals, obs, now, pre,
                 committed, outcome>>
  /\ UNCHANGED <<dvars, pvars, evars>>

\* c.mu.Lock()
CollectLock(r) ==
  /\ Running
  /\ rpc[r] = "lock"
  /\ mu = "free"
  /\ mu' = r
  /\ rpc' = [rpc EXCEPT ![r] = "qsoTotal"]
  /\ UNCHANGED <<gauges, fpc, tickerOn, tickC, locals, obs, now, pre,
                 committed, outcome>>
  /\ UNCHANGED <<dvars, pvars, evars>>

\* the order in which Collect reads the gauges
CollectOrder ==
  <<"qsoTotal", "qslTotal", "dxccCount", "scrapeDuration", "scrapeSuccess",
    "lastFetch", "qsoHistory", "unlock">>

\* c.<gauge>.Collect(ch), one gauge per step
CollectGauge(r) ==
  /\ Running
  /\ \E i \in 1..7 :
       /\ rpc[r] = CollectOrder[i]
       /\ obs' = [obs EXCEPT ![r][CollectOrder[i]] = Snapshot[CollectOrder[i]]]
       /\ rpc' = [rpc EXCEPT ![r] = CollectOrder[i + 1]]
  /\ UNCHANGED <<gauges, mu, fpc, tickerOn, tickC, locals, now, pre,
                 committed, outcome>>
  /\ UNCHANGED <<dvars, pvars, evars>>

\* defer c.mu.Unlock()
CollectUnlock(r) ==
  /\ Running
  /\ rpc[r] = "unlock"
  /\ mu' = "free"
  /\ rpc' = [rpc EXCEPT ![r] = "idle"]
  /\ obs' = [obs EXCEPT ![r] = NothingCollected]
  /\ UNCHANGED <<gauges, fpc, tickerOn, tickC, locals, now, pre, committed,
                 outcome>>
  /\ UNCHANGED <<dvars, pvars, evars>>

Init ==
  /\ InitCollector
  /\ remembered = NoneRemembered
  /\ fPieces = <<>>
  /\ feed = Reports
  /\ DecodeIdle
  /\ ParseIdle

\* one statement of the fetch goroutine
Fetch ==
  \/ StartBackgroundFetch
  \/ FetchBegin
  \/ FetchReportReturns
  \/ FetchLock
  \/ FetchSetDuration
  \/ FetchReadAll
  \/ FetchParse
  \/ FetchMarkSuccess
  \/ FetchReset
  \/ FetchRecord
  \/ FetchSetDxcc
  \/ FetchHistory
  \/ FetchUnlock
  \/ FetchReturn
  \/ FetchOnTick

\* one statement of a scrape goroutine
Collect(r) ==
  \/ CollectCall(r)
  \/ CollectLock(r)
  \/ CollectGauge(r)
  \/ CollectUnlock(r)

Next ==
  \/ Fetch
  \/ TickerFires
  \/ Advance
  \/ \E r \in Readers : Collect(r)

Spec == Init /\ [][Next]_vars

(***************************************************************************)
(* Properties of the fetch cycle                                           *)
(***************************************************************************)
Failed == outcome \in {"fetchError", "readError", "parseError"}

\* C1: a fetch cycle that fails at any stage leaves the four aggregates
\* exactly as they were when the cycle started
C1_FailureKeepsAggregates ==
  fpc = "returned" /\ Failed =>
    /\ qsoTotal = pre.qsoTotal
    /\ qslTotal = pre.qslTotal
    /\ dxccCount = pre.dxccCount
    /\ qsoHistory = pre.qsoHistory

C1_Witness ==
  /\ fpc = "returned"
  /\ outcome = "parseError"
  /\ body = ReportTooLarge
  /\ DOMAIN qsoTotal # {}
  /\ DOMAIN qsoHistory # {}
  /\ qsoTotal = pre.qsoTotal

\* C2: after a failed cycle the success flag is 0, the duration is that of
\* the cycle and the timestamp is unchanged; after a successful cycle the
\* flag is 1 and the timestamp is the time of publication, which is not
\* before the report was fetched; the timestamp changes only when a cycle
\* publishes and never decreases
C2_StatusFields ==
  /\ [](fpc = "returned" =>
          /\ scrapeDuration = duration
          /\ Failed => scrapeSuccess = 0 /\ lastFetch = pre.lastFetch
          /\ outcome = "ok" =>
               /\ scrapeSuccess = 1
               /\ start + duration <= lastFetch
               /\ lastFetch <= now)
  /\ [][/\ lastFetch' >= lastFetch
        /\ lastFetch' # lastFetch => fpc = "publish" /\ lastFetch' = now]_vars

C2_Witness ==
  /\ fpc = "returned"
  /\ Failed
  /\ pre.scrapeSuccess = 1
  /\ scrapeSuccess = 0
  /\ scrapeDuration # pre.scrapeDuration
  /\ lastFetch > 0
  /\ lastFetch < now

\* C3: a Collect that has read all seven gauges has read exactly the gauges
\* as the last finished fetch cycle left them, whatever the fetch goroutine
\* has done meanwhile
C3_CollectSeesOneCycle ==
  \A r \in Readers : rpc[r] = "unlock" => obs[r] = committed

C3_Witness ==
  \E r \in Readers :
    /\ rpc[r] = "unlock"
    /\ fpc = "lock"
    /\ outcome = "ok"
    /\ DOMAIN obs[r].qsoTotal # {}
    /\ obs[r].scrapeSuccess = 1

\* the aggregation of a record sequence, as sets of records
BandMode(rec) == <<Get(rec, BAND), Get(rec, MODE)>>

TotalsOf(recs) ==
  [k \in {BandMode(recs[i]) : i \in 1..Len(recs)} |->
     Cardinality({i \in 1..Len(recs) : BandMode(recs[i]) = k})]

ConfirmedOf(recs) ==
  [k \in {BandMode(recs[i]) : i \in {j \in 1..Len(recs) : IsConfirmed(recs[j])}}
     |-> Cardinality({i \in 1..Len(recs) :
                        IsConfirmed(recs[i]) /\ BandMode(recs[i]) = k})]

EntitiesOf(recs) ==
  Cardinality({Get(recs[i], DXCC) :
                 i \in {j \in 1..Len(recs) :
                          IsConfirmed(recs[j]) /\ Get(recs[j], DXCC) # <<>>}})

HasBar(str) == \E i \in 1..Len(str) : str[i] = "|"

\* the records that count for a day: those with a date, where neither the
\* date nor the band contains the separator of the dateCounts key
Dated(recs) ==
  {i \in 1..Len(recs) :
     /\ DateOf(recs[i]) # <<>>
     /\ ~HasBar(DateOf(recs[i]))
     /\ ~HasBar(Get(recs[i], BAND))}

DateBand(rec) == <<DateOf(rec), Get(rec, BAND)>>

DailyOf(recs) ==
  [k \in {DateBand(recs[i]) : i \in Dated(recs)} |->
     Cardinality({i \in Dated(recs) : DateBand(recs[i]) = k})]

\* C4: after a successful cycle the four aggregates are those of the
\* records of that cycle alone, with nothing left of earlier cycles
C4_SnapshotOfThisCycleOnly ==
  fpc = "returned" /\ outcome = "ok" =>
    /\ qsoTotal = TotalsOf(records)
    /\ qslTotal = ConfirmedOf(records)
    /\ dxccCount = EntitiesOf(records)
    /\ qsoHistory = DailyOf(records)

C4_Witness ==
  /\ fpc = "returned"
  /\ outcome = "ok"
  /\ body = ReportB
  /\ DOMAIN pre.qsoTotal = {<<<<"2","0","M">>, <<"C","W">>>>}
  /\ pre.dxccCount = 1
  /\ DOMAIN pre.qsoHistory # {}
  /\ DOMAIN qsoTotal =
       {<<<<"4","0","M">>, <<>>>>, <<<<>>, <<>>>>, <<<<"2","|","M">>, <<>>>>}
  /\ dxccCount = 0

\* C10: a cycle whose report decodes to zero records ends as a success:
\* the flag is 1, the timestamp is that of the cycle, the three maps are
\* empty and the entity count is 0
C10_EmptyReportPublishes ==
  /\ fpc = "returned"
  /\ outcome \notin {"fetchError", "readError"}
  /\ body \in {ReportEmpty, ReportBlank}
  => /\ outcome = "ok"
     /\ records = <<>>
     /\ scrapeSuccess = 1
     /\ start + duration <= lastFetch
     /\ qsoTotal = EmptyVec
     /\ qslTotal = EmptyVec
     /\ qsoHistory = EmptyVec
     /\ dxccCount = 0

C10_Witness ==
  /\ fpc = "returned"
  /\ outcome = "ok"
  /\ body = ReportBlank
  /\ DOMAIN pre.qsoTotal # {}
  /\ pre.dxccCount = 1
  /\ pre.lastFetch < lastFetch
  /\ qsoTotal = EmptyVec
  /\ dxccCount = 0

(***************************************************************************)
(* Aggregation over generated reports: the server answers with one report  *)
(* made of up to MaxAggRecords records, or with the empty report           *)
(***************************************************************************)
\* the most pieces in a generated report
MaxAggRecords == 2

RECURSIVE FieldsText(_)
FieldsText(fs) ==
  IF fs = <<>> THEN <<>>
  ELSE FieldText(Head(fs)[1], Head(fs)[2]) \o FieldsText(Tail(fs))

RECURSIVE FieldsRecord(_)
FieldsRecord(fs) ==
  IF fs = <<>> THEN EmptyRecord
  ELSE Put(FieldsRecord(SubSeq(fs, 1, Len(fs) - 1)),
           fs[Len(fs)][1], fs[Len(fs)][2])

\* a record of the report: its fields as <<NAME, value>>, then the marker;
\* value is the sequence of Records the piece stands for
Rec(fs) == Piece("record", FieldsText(fs) \o EOR, <<>>, <<FieldsRecord(fs)>>)

\* two records in one piece
Pair(fs, gs) ==
  Piece("record", Rec(fs).text \o Rec(gs).text, <<>>,
        Rec(fs).value \o Rec(gs).value)

D20230101 == <<"2","0","2","3","0","1","0","1">>

AggPieces ==
  { \* confirmed, one entity, dated by QSO_DATE
    Rec(<< <<BAND, <<"2","0","M">>>>, <<MODE, <<"C","W">>>>,
           <<QSL_RCVD, <<"Y">>>>, <<DXCC, <<"1">>>>,
           <<QSO_DATE, D20230101>> >>),
    \* confirmed in lower case, the same entity, another band, no mode
    Rec(<< <<BAND, <<"4","0","M">>>>, <<QSL_RCVD, <<"y">>>>,
           <<DXCC, <<"1">>>>, <<QSO_DATE, D20230101>> >>),
    \* two contacts of one day on one band: the first as above, the second
    \* of another entity and dated by a timestamp of 11 characters
    Pair(<< <<BAND, <<"2","0","M">>>>, <<MODE, <<"C","W">>>>,
            <<QSL_RCVD, <<"Y">>>>, <<DXCC, <<"1">>>>,
            <<QSO_DATE, D20230101>> >>,
         << <<BAND, <<"2","0","M">>>>, <<QSL_RCVD, <<"Y">>>>,
            <<DXCC, <<"2">>>>,
            <<APP_LOTW_QSO_TIMESTAMP,
              <<"2","0","2","3","-","0","1","-","0","1","T">>>> >>),
    \* a timestamp of 10 characters and a QSO_DATE of another day
    Rec(<< <<APP_LOTW_QSO_TIMESTAMP,
             <<"2","0","2","3","-","0","1","-","0","3">>>>,
           <<QSO_DATE, D20230101>> >>),
    \* not confirmed, with an entity, a QSO_DATE of 7 characters
    Rec(<< <<QSL_RCVD, <<"N">>>>, <<DXCC, <<"3">>>>,
           <<QSO_DATE, <<"2","0","2","3","0","1","0">>>> >>),
    \* a timestamp of 9 characters and a QSO_DATE
    Rec(<< <<APP_LOTW_QSO_TIMESTAMP,
             <<"2","0","2","3","-","0","1","-","0">>>>,
           <<QSO_DATE, <<"2","0","2","3","0","1","0","2">>>> >>),
    \* confirmed, an empty DXCC, a band that holds a '|'
    Rec(<< <<BAND, <<"2","|","M">>>>, <<QSL_RCVD, <<"Y">>>>,
           <<DXCC, <<>>>>, <<QSO_DATE, D20230101>> >>),
    \* a record without a valid tag
    Piece("junk", <<"<","z","z",">">> \o EOR, <<>>, <<>>) }

\* the Records the generated report stands for
RECURSIVE RecordsOf(_)
RecordsOf(ps) ==
  IF ps = <<>> THEN <<>> ELSE Head(ps).value \o RecordsOf(Tail(ps))

Expected == RecordsOf(fPieces)

InitAggregate ==
  /\ InitCollector
  /\ remembered = NoneRemembered
  /\ fPieces \in PieceSeqs(AggPieces, MaxAggRecords)
  /\ feed = {Flatten(fPieces), ReportEmpty}
  /\ DecodeIdle
  /\ ParseIdle

\* the report and the aggregates of a successful cycle are noted
Remember ==
  /\ fpc = "returned"
  /\ outcome = "ok"
  /\ remembered' = [set |-> TRUE, body |-> body, agg |-> aggregates]
  /\ UNCHANGED <<dvars, pvars, cvars, fPieces, feed>>

NextAggregate ==
  \/ Fetch
  \/ TickerFires
  \/ Remember

SpecAggregate == InitAggregate /\ [][NextAggregate]_vars

\* the aggregates are final: the last key of dateCounts has been written
Published ==
  \/ fpc = "history" /\ histLeft = {}
  \/ fpc = "returned" /\ outcome = "ok"

\* C11: a successful cycle over a report publishes the aggregates that an
\* earlier successful cycle over the same report published, whatever
\* cycles ran in between and in whatever order the date keys were visited
C11_SameReportSameSnapshot ==
  Published /\ remembered.set /\ remembered.body = body =>
    aggregates = remembered.agg

C11_Witness ==
  /\ fpc = "history"
  /\ histLeft = {}
  /\ remembered.set
  /\ remembered.body = body
  /\ Len(records) = 3
  /\ Cardinality(DOMAIN qsoHistory) = 2
  /\ pre.scrapeSuccess = 1
  /\ pre.qsoTotal = EmptyVec

\* the cycle works on the generated report
OnGenerated == body = Flatten(fPieces)

\* QSL_RCVD is Y in either letter case
QslReceived(rec) ==
  QSL_RCVD \in DOMAIN rec /\ rec[QSL_RCVD] \in {<<"Y">>, <<"y">>}

\* the record names an entity and is confirmed
CountsEntity(rec) ==
  QslReceived(rec) /\ DXCC \in DOMAIN rec /\ rec[DXCC] # <<>>

DistinctEntities(recs) ==
  {recs[i][DXCC] : i \in {j \in 1..Len(recs) : CountsEntity(recs[j])}}

\* C12: in the pass over the records the number of distinct entities rises
\* by at most 1 per record, only for a confirmed record with a non-empty
\* DXCC not seen before, and never falls; the published count is the number
\* of distinct non-empty DXCC values of the confirmed records
C12_DistinctConfirmedEntities ==
  /\ [](Published /\ OnGenerated =>
          dxccCount = Cardinality(DistinctEntities(Expected)))
  /\ [][fpc = "loop" /\ OnGenerated /\ ri' = ri + 1 =>
          LET rec  == Expected[ri]
              rise == Cardinality(dxccConfirmed') - Cardinality(dxccConfirmed)
              seen == DistinctEntities(SubSeq(Expected, 1, ri - 1))
          IN /\ ri <= Len(Expected)
             /\ rise \in {0, 1}
             /\ dxccConfirmed \subseteq dxccConfirmed'
             /\ rise = 1 <=> CountsEntity(rec) /\ rec[DXCC] \notin seen]_vars

C12_Witness ==
  /\ fpc = "returned"
  /\ outcome = "ok"
  /\ OnGenerated
  /\ Len(Expected) = 3
  /\ \E i, j, k \in 1..3 :
       /\ i # j
       /\ CountsEntity(Expected[i]) /\ Expected[i][QSL_RCVD] = <<"y">>
       /\ CountsEntity(Expected[j])
       /\ Expected[i][DXCC] = Expected[j][DXCC]
       /\ CountsEntity(Expected[k])
       /\ Expected[k][DXCC] # Expected[i][DXCC]
  /\ dxccCount = 2

\* the label a field gives: its value, or "" when the field is absent
LabelOf(rec, name) == IF name \in DOMAIN rec THEN rec[name] ELSE <<>>

RECURSIVE SumVec(_)
SumVec(vec) ==
  IF DOMAIN vec = {} THEN 0
  ELSE LET k == CHOOSE x \in DOMAIN vec : TRUE
       IN vec[k] + SumVec([x \in DOMAIN vec \ {k} |-> vec[x]])

\* the value of a child, 0 when the GaugeVec has no such child
ValueAt(vec, labels) == IF labels \in DOMAIN vec THEN vec[labels] ELSE 0

\* C13: each record with a field adds exactly 1 to the total of its
\* (band, mode), "" standing for an absent BAND or MODE, and changes no
\* other total; a record without fields reaches no aggregate; so the
\* published totals add up to the number of records with a field
C13_EveryRecordCountedOnce ==
  /\ [](Published /\ OnGenerated =>
          /\ Len(records) = Len(Expected)
          /\ SumVec(qsoTotal) = Len(Expected)
          /\ Expected = <<>> =>
               /\ qsoTotal = EmptyVec /\ qslTotal = EmptyVec
               /\ qsoHistory = EmptyVec /\ dxccCount = 0)
  /\ [][fpc = "loop" /\ OnGenerated /\ ri' = ri + 1 =>
          LET rec == Expected[ri]
              key == <<LabelOf(rec, BAND), LabelOf(rec, MODE)>>
          IN /\ ri <= Len(Expected)
             /\ DOMAIN qsoTotal' = DOMAIN qsoTotal \cup {key}
             /\ qsoTotal'[key] = ValueAt(qsoTotal, key) + 1
             /\ \A k \in DOMAIN qsoTotal : k # key => qsoTotal'[k] = qsoTotal[k]]_vars

C13_Witness ==
  /\ fpc = "returned"
  /\ outcome = "ok"
  /\ OnGenerated
  /\ Len(fPieces) = 2
  /\ \E i \in 1..2 : fPieces[i].kind = "junk"
  /\ Len(Expected) = 1
  /\ BAND \notin DOMAIN Expected[1]
  /\ MODE \notin DOMAIN Expected[1]
  /\ qsoTotal = Put(EmptyVec, <<<<>>, <<>>>>, 1)

\* the date bucket of a record: the first 10 characters of a timestamp of
\* at least 10, else a QSO_DATE of 8 characters as YYYY-MM-DD, else none
BucketOf(rec) ==
  LET ts  == LabelOf(rec, APP_LOTW_QSO_TIMESTAMP)
      raw == LabelOf(rec, QSO_DATE)
  IN IF Len(ts) >= 10 THEN SubSeq(ts, 1, 10)
     ELSE IF Len(raw) = 8
     THEN SubSeq(raw, 1, 4) \o <<"-">> \o SubSeq(raw, 5, 6) \o <<"-">>
            \o SubSeq(raw, 7, 8)
     ELSE <<>>

\* the (date, band) pairs of the records that have a date bucket
Buckets(recs) ==
  {<<BucketOf(recs[i]), LabelOf(recs[i], BAND)>> :
     i \in {j \in 1..Len(recs) : BucketOf(recs[j]) # <<>>}}

CountIn(recs, d, b) ==
  Cardinality({i \in 1..Len(recs) :
                 BucketOf(recs[i]) = d /\ LabelOf(recs[i], BAND) = b})

\* C14: for every date d and band b, whatever the strings, the published
\* daily count of (d, b) is the number of records of the report whose date
\* bucket is d and whose BAND is b
C14_DailyCountsByDateBand ==
  Published /\ OnGenerated =>
    \A k \in Buckets(Expected) \cup DOMAIN qsoHistory :
      ValueAt(qsoHistory, k) = CountIn(Expected, k[1], k[2])

(***************************************************************************)
(* Properties of the scheduler                                             *)
(***************************************************************************)
\* fetch is executing
InFlight ==
  fpc \in {"start", "fetchReport", "lock", "setDuration", "readAll", "parse",
           "publish", "reset", "loop", "history", "returned"}

\* C15: the first cycle starts straight from StartBackgroundFetch, while no
\* ticker and no tick exists, and no tick is consumed before it has ended;
\* every later cycle starts from the wait for a tick, never while a cycle
\* is in flight, and takes the one buffered tick; however many ticks fire
\* during a cycle, at most one is buffered
C15_OneCycleAtATime ==
  /\ [](tickC \in {0, 1})
  /\ [](~tickerOn => tickC = 0 /\ fpc # "waitTick")
  /\ [](outcome = "none" /\ fpc # "off" => InFlight \/ fpc = "crashed")
  /\ [][fpc' = "start" /\ fpc # "start" =>
          \/ fpc = "off" /\ ~tickerOn
          \/ fpc = "waitTick" /\ tickC = 1 /\ tickC' = 0]_vars
  /\ [][tickC' < tickC => fpc = "waitTick" /\ fpc' = "start"
                          /\ outcome # "none"]_vars

C15_Witness ==
  /\ fpc = "loop"
  /\ outcome # "none"
  /\ tickC = 1
  /\ start < now

\* the scheduling the Go runtime gives: a goroutine that can run does run,
\* the ticker keeps firing, and a goroutine waiting for the mutex gets it
\* (sync.Mutex hands the mutex to a starved waiter); nothing obliges the
\* clock to advance within the bound or a scrape to arrive
Fairness ==
  /\ WF_vars(Fetch)
  /\ SF_vars(FetchLock)
  /\ WF_vars(TickerFires)
  /\ \A r \in Readers :
       /\ SF_vars(CollectLock(r))
       /\ WF_vars(CollectGauge(r))
       /\ WF_vars(CollectUnlock(r))

SpecLive == Init /\ [][Next]_vars /\ Fairness

\* C16: no outcome of a cycle ends the scheduler; after a failed cycle the
\* goroutine goes back to waiting and starts another cycle; a later
\* successful cycle publishes and sets the success flag to 1
C16_SchedulerSurvives ==
  /\ []Running
  /\ [](fpc = "returned" /\ Failed => <>(fpc = "start"))
  /\ [](fpc = "returned" /\ outcome = "ok" =>
          scrapeSuccess = 1 /\ lastFetch >= start)

(***************************************************************************)
(* Properties of the header and of the last fragment                       *)
(***************************************************************************)
\* the pieces after the first end-of-header marker
RECURSIVE AfterHeader(_)
AfterHeader(ps) ==
  IF ps = <<>> THEN <<>>
  ELSE IF Head(ps).kind = "eoh" THEN Tail(ps)
  ELSE AfterHeader(Tail(ps))

\* one record fragment that holds an end-of-header marker, fits the token
\* buffer and has no negative length
HeaderFragment(ps) ==
  /\ "eoh" \in Kinds(ps)
  /\ "eor" \notin Kinds(ps)
  /\ "neg" \notin Kinds(ps)
  /\ Len(Flatten(ps)) < MaxTokenSize

\* rec has the fields of exp, the values compared without the white space
\* that ends them
SameFields(rec, exp) ==
  /\ DOMAIN rec = DOMAIN exp
  /\ \A k \in DOMAIN exp : TrimRight(rec[k]) = TrimRight(exp[k])

\* C17: a fragment with an end-of-header marker, in any letter case and
\* anywhere in it, is decoded without a fault from the text after the
\* marker: every tag after the marker gives its field, no tag before it
\* gives one
C17_HeaderStripped ==
  pStatus # "scanning" /\ HeaderFragment(pPieces) =>
    /\ pStatus = "ok"
    /\ LET exp == FieldsOf(AfterHeader(pPieces))
       IN IF DOMAIN exp = {} THEN pRecords = <<>>
          ELSE Len(pRecords) = 1 /\ SameFields(pRecords[1], exp)

\* the marker-terminated records of ps: the pieces up to the last marker
RECURSIVE MarkedPart(_)
MarkedPart(ps) ==
  IF ps = <<>> \/ ps[Len(ps)].kind = "eor" THEN ps
  ELSE MarkedPart(SubSeq(ps, 1, Len(ps) - 1))

\* the pieces after the last marker
LastFragment(ps) == SubSeq(ps, Len(MarkedPart(ps)) + 1, Len(ps))

\* well-formed records followed by a non-empty fragment without a marker
\* that fits the token buffer
EndsWithFragment(ps) ==
  /\ WellFormedStream(MarkedPart(ps))
  /\ LastFragment(ps) # <<>>
  /\ Len(Flatten(LastFragment(ps))) < MaxTokenSize

\* C18: when the input ends with a non-empty fragment that no marker
\* follows, the fragment is yielded last, after the marker-terminated
\* records, and Parse returns without error
C18_LastFragmentYielded ==
  pStatus # "scanning" /\ EndsWithFragment(pPieces) =>
    /\ pStatus = "ok"
    /\ pTokens =
         [i \in 1..Len(MarkedGroups(MarkedPart(pPieces))) |->
            Flatten(MarkedGroups(MarkedPart(pPieces))[i])]
         \o <<Flatten(LastFragment(pPieces))>>

(***************************************************************************)
(* Properties of the mutex                                                 *)
(***************************************************************************)
\* C19: while a scrape holds the mutex the goroutine of fetch can still
\* start a cycle and fetch the report; the only statement at which it
\* waits is c.mu.Lock(), which it can take whenever the mutex is free, and
\* the end of Collect frees the mutex
C19_ReadersDelayOnlyTheLock ==
  /\ [](mu \in Readers =>
          /\ fpc \in {"off", "start", "fetchReport", "lock", "returned",
                      "waitTick"}
          /\ fpc \in {"off", "start", "fetchReport", "returned"} =>
               ENABLED Fetch
          /\ fpc = "waitTick" /\ tickC = 1 => ENABLED FetchOnTick)
  /\ [](fpc = "lock" => (ENABLED FetchLock <=> mu = "free"))
  /\ [][\A r \in Readers :
          rpc[r] = "unlock" /\ rpc'[r] = "idle" => mu = r /\ mu' = "free"]_vars

C19_Witness ==
  \E r \in Readers :
    /\ mu = r
    /\ rpc[r] = "scrapeSuccess"
    /\ fpc = "fetchReport"
    /\ outcome # "none"
    /\ start = now

\* fetch is not executing: before the first call, between two calls, or
\* after the process has ended
FetchIdle == fpc \in {"off", "returned", "waitTick", "crashed"}

\* C20: on every way out of fetch the mutex, held until then, is released;
\* it is released only by its holder; so it is free whenever neither fetch
\* nor the critical section of a Collect is executing, and every Collect
\* call that waits for the mutex gets it and returns
C20_MutexAlwaysReleased ==
  /\ [][~FetchIdle /\ FetchIdle' => mu = "fetch" /\ mu' = "free"]_vars
  /\ [][mu # "free" /\ mu' # mu =>
          /\ mu' = "free"
          /\ \/ mu = "fetch" /\ fpc' = "returned"
             \/ mu \in Readers /\ rpc[mu] = "unlock" /\ rpc'[mu] = "idle"]_vars
  /\ [](FetchIdle /\ (\A r \in Readers : rpc[r] \in {"idle", "lock"}) =>
          mu = "free")
  /\ \A r \in Readers : [](rpc[r] = "lock" => <>(rpc[r] = "idle"))

(***************************************************************************)
(* Confirmed totals against totals                                         *)
(***************************************************************************)
\* the (band, mode) keys of the records, "" standing for an absent field
KeysOf(recs) ==
  {<<LabelOf(recs[i], BAND), LabelOf(recs[i], MODE)>> : i \in 1..Len(recs)}

\* the number of records of the key whose QSL_RCVD is Y in either case
ConfirmedIn(recs, key) ==
  Cardinality({i \in 1..Len(recs) :
                 /\ <<LabelOf(recs[i], BAND), LabelOf(recs[i], MODE)>> = key
                 /\ QslReceived(recs[i])})

\* C21: in a published snapshot the confirmed total of every (band, mode)
\* is the number of records of that band and mode whose QSL_RCVD is Y in
\* either letter case, so it is at most the total of the key, and the
\* number of confirmed entities is at most the sum of the confirmed totals
C21_ConfirmedWithinTotals ==
  Published /\ OnGenerated =>
    /\ DOMAIN qslTotal \subseteq DOMAIN qsoTotal
    /\ \A key \in KeysOf(Expected) \cup DOMAIN qsoTotal \cup DOMAIN qslTotal :
         /\ ValueAt(qslTotal, key) = ConfirmedIn(Expected, key)
         /\ ValueAt(qslTotal, key) <= ValueAt(qsoTotal, key)
    /\ dxccCount <= SumVec(qslTotal)

C21_Witness ==
  /\ fpc = "returned"
  /\ outcome = "ok"
  /\ OnGenerated
  /\ \E i \in 1..Len(Expected) :
       /\ QslReceived(Expected[i])
       /\ Expected[i][QSL_RCVD] = <<"y">>
  /\ \E i \in 1..Len(Expected) :
       /\ DXCC \in DOMAIN Expected[i]
       /\ Expected[i][DXCC] # <<>>
       /\ ~QslReceived(Expected[i])
  /\ \E key \in DOMAIN qsoTotal : key \notin DOMAIN qslTotal
  /\ SumVec(qslTotal) = 1
  /\ dxccCount = 1

(***************************************************************************)
(* Values are not scanned for tags, and the last tag of a name wins        *)
(***************************************************************************)
\* the pieces up to i are fields, tags that are not fields and text, and
\* piece i is a field
FieldEndsAt(ps, i) ==
  /\ i \in 1..Len(ps)
  /\ ps[i].kind = "field"
  /\ OnlyFieldsAndSkippedTags(SubSeq(ps, 1, i))

\* the positions of the field pieces of a name
TagsOf(ps, name) == {i \in 1..Len(ps) : ps[i].kind = "field" /\ ps[i].key = name}

\* the greatest member of a non-empty set of positions
Last(S) == CHOOSE i \in S : \A j \in S : j <= i

\* C22: after a field tag of declared length L the scan goes on exactly L
\* characters after the closing '>': the result of the whole record string
\* is that of scanning what follows the value, begun with the fields found
\* so far, whatever follows; the Record has the names of the field tags and
\* no other, a tag inside a value adding none, and under each name the
\* value of the last tag of that name
C22_ValueNotRescanned ==
  dDone =>
    /\ \A i \in 1..Len(dPieces) :
         FieldEndsAt(dPieces, i) =>
           dResult = parseRecordLoop(
                       Flatten(SubSeq(dPieces, i + 1, Len(dPieces))),
                       FieldsOf(SubSeq(dPieces, 1, i)))
    /\ OnlyFieldsAndSkippedTags(dPieces) =>
         /\ ~dResult.fault
         /\ DOMAIN dResult.rec =
              {dPieces[i].key :
                 i \in {j \in 1..Len(dPieces) : dPieces[j].kind = "field"}}
         /\ \A name \in DOMAIN dResult.rec :
              dResult.rec[name] = dPieces[Last(TagsOf(dPieces, name))].value

C22_Witness ==
  /\ dDone
  /\ ~dResult.fault
  /\ Len(dPieces) = 4
  /\ OnlyFieldsAndSkippedTags(dPieces)
  /\ dPieces[1].kind = "field"
  /\ dPieces[1].key = <<"C">>
  /\ dPieces[1].value = <<"<","a",":","1",">">>
  /\ dPieces[2].kind = "text"
  /\ dPieces[3].kind = "field"
  /\ dPieces[4].kind = "field"
  /\ dPieces[3].key = <<"A">>
  /\ dPieces[4].key = <<"A">>
  /\ dPieces[3].value # dPieces[4].value
  /\ DOMAIN dResult.rec = {<<"A">>, <<"C">>}
  /\ dResult.rec[<<"A">>] = dPieces[4].value
  /\ dResult.rec[<<"C">>] = dPieces[1].value
====
